---- MODULE Spec2Model ----
(***************************************************************************)
(* Model of the dashboard script (src/script.js).  The file holds three    *)
(* revisions of the page script one after the other:                       *)
(*   revision 1: lines   1-183  (refresh button without cooldown)          *)
(*   revision 2: lines 185-391  (sync poll + refresh button with cooldown) *)
(*   revision 3: lines 393-509  (freshness badge, reworked updateSummary)  *)
(* The manual-refresh / sync-poll machine is modelled from revision 2, the *)
(* freshness badge from revision 3 and updateSummary from both.            *)
(***************************************************************************)
EXTENDS Integers, Sequences, FiniteSets, TLC

VARIABLES
  refreshCooldown,  \* line 187: let refreshCooldown = false
  refreshBtn,       \* #refreshBtn: [disabled, innerText]
  refreshMsg,       \* #refreshMsg innerText
  timers,           \* one entry per accepted click: the closure's `remaining`
                    \* and whether its setInterval is still scheduled
  reqs,             \* one entry per accepted click: "pending", or how its
                    \* trigger fetch settled
  clicks,           \* number of click events delivered to the handler
  syncBadge,        \* #syncBadge: [innerText, className]
  lastUpdated,      \* #lastUpdated innerText
  polls,            \* sync_status.json fetches in flight
  rev,              \* which revision's setupDashboard / updateSummary the page runs
  tzOffset,         \* the browser's local time zone, hours east of UTC
  now,              \* the instant `new Date()` returns, hours since day 0, 00:00 UTC
  loaded,           \* daily_summary.csv has been fetched and setupDashboard called
  data,             \* the records parseCSV returned
  adInput,          \* #adSpendInput value
  listening,        \* the "input" listener has been registered
  dom,              \* the summary elements: innerText of each, className of #status
  updateBadge,      \* #updateBadge: [textContent, className]
  lastCall          \* arguments of the latest updateSummary call, and whether it threw

refreshVars == <<refreshCooldown, refreshBtn, refreshMsg, timers, reqs>>
syncVars == <<syncBadge, lastUpdated, polls>>
dashVars == <<rev, tzOffset, now, loaded, data, adInput, listening, dom,
              updateBadge, lastCall>>
vars == <<refreshCooldown, refreshBtn, refreshMsg, timers, reqs, clicks,
          syncBadge, lastUpdated, polls,
          rev, tzOffset, now, loaded, data, adInput, listening, dom,
          updateBadge, lastCall>>

----------------------------------------------------------------------------
(* Bounds of the model *)

\* click events delivered to the refresh handler
MaxClicks == 2
\* sync_status.json fetches in flight at the same time
MaxPolls == 1

(* Program constants *)

\* line 337: let remaining = 60
CooldownSeconds == 60

----------------------------------------------------------------------------
(* Texts written to the DOM (emoji left out) *)

BtnIdleText == "Refresh Data"
BtnCountdownText(n) == "Refreshing... (" \o ToString(n) \o "s)"
MsgStarted == "Refresh started"
MsgFailed == "Failed to trigger refresh"
BadgeSyncing == [innerText |-> "Data syncing...", className |-> "badge bg-warning text-dark"]
BadgeUpToDate == [innerText |-> "Data up to date", className |-> "badge bg-success"]
\* the badge as the page's markup leaves it before any script has written it
BadgeInitial == [innerText |-> "", className |-> ""]

\* outcomes of the trigger fetch: resolved with res.ok, resolved with a
\* non-success status, rejected (network error)
Outcomes == {"ok", "http_error", "network_error"}

\* sync_status.json documents: {status, last_updated}
StatusDocs == [status : {"syncing", "idle"}, last_updated : {"t1", "t2"}]

----------------------------------------------------------------------------
(* Manual refresh button, revision 2 (lines 331-376) *)

\* mutant of CooldownGuard: the guard is missing (as in revision 1)
CooldownGuard_missing == FALSE

\* line 332: if (refreshCooldown) return;
CooldownGuard == refreshCooldown

\* lines 334-365: the synchronous part of an accepted click, up to the await
AcceptClick ==
  /\ refreshCooldown' = TRUE
  /\ refreshBtn' = [disabled |-> TRUE,
                    innerText |-> BtnCountdownText(CooldownSeconds)]
  /\ refreshMsg' = MsgStarted
  /\ syncBadge' = BadgeSyncing
  /\ lastUpdated' = ""
  /\ timers' = Append(timers, [remaining |-> CooldownSeconds, active |-> TRUE])
  /\ reqs' = Append(reqs, "pending")
  /\ UNCHANGED polls

\* lines 331-365: the click handler run to its first await
Click ==
  /\ clicks < MaxClicks
  /\ clicks' = clicks + 1
  /\ UNCHANGED dashVars
  /\ IF CooldownGuard
       THEN UNCHANGED <<refreshVars, syncVars>>
       ELSE AcceptClick

\* mutant of Expire: the expiry forgets to re-enable the button
Expire_keepsDisabled(i) ==
  /\ timers' = [timers EXCEPT ![i] = [remaining |-> @.remaining - 1, active |-> FALSE]]
  /\ refreshCooldown' = FALSE
  /\ refreshBtn' = [disabled |-> refreshBtn.disabled, innerText |-> BtnIdleText]
  /\ refreshMsg' = ""

\* lines 352-358: the countdown has reached zero
Expire(i) ==
  /\ timers' = [timers EXCEPT ![i] = [remaining |-> @.remaining - 1, active |-> FALSE]]
  /\ refreshCooldown' = FALSE
  /\ refreshBtn' = [disabled |-> FALSE, innerText |-> BtnIdleText]
  /\ refreshMsg' = ""

\* line 359: every countdown has the same period of 1000 ms, so the event
\* loop never runs the callback of a younger interval more often than that
\* of an older one that is still scheduled
TimerDue(i) ==
  /\ timers[i].active
  /\ \A j \in 1..(i - 1) : timers[j].active => timers[j].remaining < timers[i].remaining

\* lines 348-359: one run of the setInterval callback of accepted click i
Tick(i) ==
  /\ i \in 1..Len(timers)
  /\ TimerDue(i)
  /\ IF timers[i].remaining - 1 <= 0
       THEN Expire(i)
       ELSE /\ timers' = [timers EXCEPT ![i].remaining = @ - 1]
            /\ refreshBtn' = [refreshBtn EXCEPT
                                !.innerText = BtnCountdownText(timers[i].remaining - 1)]
            /\ UNCHANGED <<refreshCooldown, refreshMsg>>
  /\ UNCHANGED <<reqs, clicks, syncVars, dashVars>>

\* mutant of ResponseFails: the res.ok test is missing
ResponseFails_noStatusTest(outcome) == outcome = "network_error"

\* lines 362-369: fetch rejects, or res.ok is false and the handler throws
ResponseFails(outcome) == outcome \in {"network_error", "http_error"}

\* lines 370-375: the catch block
CatchBlock ==
  /\ refreshMsg' = MsgFailed
  /\ refreshBtn' = [disabled |-> FALSE, innerText |-> BtnIdleText]
  /\ refreshCooldown' = FALSE

\* lines 361-376: the continuation of the handler after `await fetch(...)`
FetchSettles(i, outcome) ==
  /\ i \in 1..Len(reqs)
  /\ reqs[i] = "pending"
  /\ reqs' = [reqs EXCEPT ![i] = outcome]
  /\ IF ResponseFails(outcome)
       THEN CatchBlock
       ELSE UNCHANGED <<refreshMsg, refreshBtn, refreshCooldown>>
  /\ UNCHANGED <<timers, clicks, syncVars, dashVars>>

----------------------------------------------------------------------------
(* Sync status poll, revision 2 (lines 301-322) *)

\* lines 302, 321-322: updateSyncStatus() starts a fetch; the document the
\* server will answer with is fixed here.  `epoch` records how many clicks
\* had been accepted when the fetch started.
PollStart(doc) ==
  /\ Len(polls) < MaxPolls
  /\ polls' = Append(polls, [doc |-> doc, epoch |-> Len(reqs)])
  /\ UNCHANGED <<refreshVars, clicks, syncBadge, lastUpdated, dashVars>>

RemoveAt(s, k) == [j \in 1..(Len(s) - 1) |-> IF j < k THEN s[j] ELSE s[j + 1]]

\* lines 304-317: the .then(d => ...) callback
PollResponse(k) ==
  /\ k \in 1..Len(polls)
  /\ polls' = RemoveAt(polls, k)
  /\ IF polls[k].doc.status = "syncing"
       THEN /\ syncBadge' = BadgeSyncing
            /\ lastUpdated' = ""
       ELSE /\ syncBadge' = BadgeUpToDate
            /\ lastUpdated' = "Last updated: " \o polls[k].doc.last_updated
  /\ UNCHANGED <<refreshVars, clicks, dashVars>>

\* line 318: .catch(() => {})
PollError(k) ==
  /\ k \in 1..Len(polls)
  /\ polls' = RemoveAt(polls, k)
  /\ UNCHANGED <<refreshVars, clicks, syncBadge, lastUpdated, dashVars>>

----------------------------------------------------------------------------
(* Numbers: JavaScript numbers are modelled as whole amounts plus NaN *)

Num(n) == [nan |-> FALSE, v |-> n]
NaN == [nan |-> TRUE, v |-> 0]

\* a + b and a - b of JavaScript: NaN is absorbing
Plus(a, b) == IF a.nan \/ b.nan THEN NaN ELSE Num(a.v + b.v)
Minus(a, b) == IF a.nan \/ b.nan THEN NaN ELSE Num(a.v - b.v)

\* lines 382-384 (503-505): data.reduce((a, b) => a + b[key], 0)
RECURSIVE sum(_, _)
sum(rows, key) ==
  IF rows = <<>> THEN Num(0)
  ELSE Plus(sum(SubSeq(rows, 1, Len(rows) - 1), key), rows[Len(rows)][key])

Pad(n, width) ==
  IF width = 3 /\ n < 10 THEN "00" \o ToString(n)
  ELSE IF (width = 3 /\ n < 100) \/ (width = 2 /\ n < 10) THEN "0" \o ToString(n)
  ELSE ToString(n)

RECURSIVE Grouped(_)
Grouped(n) ==
  IF n < 1000 THEN ToString(n)
  ELSE Grouped(n \div 1000) \o "," \o Pad(n % 1000, 3)

\* lines 386-391 (507-509): v.toLocaleString("en-US", {style: "currency", currency: "EUR"})
money(v) ==
  IF v.nan THEN "EUR NaN"
  ELSE IF v.v < 0 THEN "-EUR " \o Grouped(0 - v.v) \o ".00"
  ELSE "EUR " \o Grouped(v.v) \o ".00"

\* the values parseFloat gives for the texts typed into #adSpendInput
AdInputs == {"", "abc", "0", "-5", "1", "500", "1000", "1001"}
parseFloat(s) ==
  CASE s = "" -> NaN
    [] s = "abc" -> NaN
    [] s = "0" -> Num(0)
    [] s = "-5" -> Num(0 - 5)
    [] s = "1" -> Num(1)
    [] s = "500" -> Num(500)
    [] s = "1000" -> Num(1000)
    [] s = "1001" -> Num(1001)

\* x || 0 for a number x: NaN and 0 are falsy
OrZero(x) == IF x.nan \/ x.v = 0 THEN Num(0) ELSE x

----------------------------------------------------------------------------
(* updateSummary *)

\* lines 241 (430): const roas = adSpend > 0 ? revenue / adSpend : null
\* a ratio is kept as numerator and denominator
Roas(revenue, adSpend) ==
  IF ~adSpend.nan /\ adSpend.v > 0
    THEN [null |-> FALSE, nan |-> revenue.nan, num |-> revenue.v, den |-> adSpend.v]
    ELSE [null |-> TRUE, nan |-> FALSE, num |-> 0, den |-> 1]

\* roas < k for a non-null ratio (false when the ratio is NaN)
RoasLess(r, k) == ~r.nan /\ r.num < k * r.den

\* roas.toFixed(2) for a non-null ratio: two decimals, rounded half up
toFixed2(r) ==
  IF r.nan THEN "NaN"
  ELSE LET mag == IF r.num < 0 THEN 0 - r.num ELSE r.num
           h == (200 * mag + r.den) \div (2 * r.den)
           txt == ToString(h \div 100) \o "." \o Pad(h % 100, 2)
       IN IF r.num < 0 THEN "-" \o txt ELSE txt

\* lines 259-268 (448-457): the three-way classification
Classify(d, r) ==
  IF RoasLess(r, 1)
    THEN [d EXCEPT !.status = "RED", !.statusClass = "status-red"]
  ELSE IF RoasLess(r, 3)
    THEN [d EXCEPT !.status = "YELLOW", !.statusClass = "status-yellow"]
  ELSE [d EXCEPT !.status = "GREEN", !.statusClass = "status-green"]

\* lines 239-270 (revision 1: 54-85).  Gives the DOM after the call and
\* whether the call threw (roas.toFixed on null is a TypeError).
updateSummary_r2(d, revenue, refunds, adSpend) ==
  LET net == Minus(Minus(revenue, refunds), adSpend)
      roas == Roas(revenue, adSpend)
      d1 == [d EXCEPT !.totalRevenue = money(revenue),
                      !.totalRefunds = money(refunds),
                      !.adSpend = money(adSpend),
                      !.netProfit = money(net),
                      !.statusClass = ""]
  IN IF ~adSpend.nan /\ adSpend.v = 0
       THEN [dom |-> [d1 EXCEPT !.roas = "-", !.status = "N/A",
                                !.statusClass = "status-na"],
             threw |-> FALSE]
     ELSE IF roas.null
       THEN [dom |-> d1, threw |-> TRUE]
     ELSE [dom |-> Classify([d1 EXCEPT !.roas = toFixed2(roas)], roas),
           threw |-> FALSE]

\* mutant of updateSummary_r3: the status class is toggled on the element
\* instead of being cleared and added again
updateSummary_r3_toggle(d, revenue, refunds, adSpend) ==
  LET net == Minus(Minus(revenue, refunds), adSpend)
      roas == Roas(revenue, adSpend)
      d1 == [d EXCEPT !.totalRevenue = money(revenue),
                      !.totalRefunds = money(refunds),
                      !.netProfit = money(net)]
      c == Classify([d1 EXCEPT !.roas = toFixed2(roas)], roas)
  IN IF roas.null \/ roas.nan \/ roas.num = 0
       THEN [dom |-> [d1 EXCEPT !.roas = "-", !.status = ""], threw |-> FALSE]
     ELSE [dom |-> IF d.statusClass = c.statusClass
                     THEN [c EXCEPT !.statusClass = ""] ELSE c,
           threw |-> FALSE]

\* lines 428-458.  `!roas` holds for null, 0 and NaN.
updateSummary_r3(d, revenue, refunds, adSpend) ==
  LET net == Minus(Minus(revenue, refunds), adSpend)
      roas == Roas(revenue, adSpend)
      d1 == [d EXCEPT !.totalRevenue = money(revenue),
                      !.totalRefunds = money(refunds),
                      !.netProfit = money(net)]
  IN IF roas.null \/ roas.nan \/ roas.num = 0
       THEN [dom |-> [d1 EXCEPT !.roas = "-", !.status = ""], threw |-> FALSE]
     ELSE [dom |-> Classify([d1 EXCEPT !.roas = toFixed2(roas), !.statusClass = ""],
                            roas),
           threw |-> FALSE]

updateSummary(d, revenue, refunds, adSpend) ==
  IF rev = 2 THEN updateSummary_r2(d, revenue, refunds, adSpend)
  ELSE updateSummary_r3(d, revenue, refunds, adSpend)

\* lines 223-229 (417-423): recalc() on DOM d with the dataset rows and the
\* input's text
recalc(d, rows, text) ==
  updateSummary(d, sum(rows, "revenue"), sum(rows, "refunds"),
                OrZero(parseFloat(text)))

\* what recalc passed to updateSummary, and whether that call threw
CallOf(d, rows, text) ==
  <<[revenue |-> sum(rows, "revenue"), refunds |-> sum(rows, "refunds"),
     adSpend |-> OrZero(parseFloat(text)),
     threw |-> recalc(d, rows, text).threw]>>

----------------------------------------------------------------------------
(* Freshness badge, revision 3 (lines 460-480) *)

\* Instants are whole hours since 00:00 UTC of day 0; day n is 2024-01-0n.
HoursPerDay == 24

\* the date strings of the dataset: an ISO date-only form ("2024-01-02") or
\* a form with slashes ("2024/01/02")
Dates == [fmt : {"iso", "slash"}, day : 1..3]
DateText(d) ==
  IF d.fmt = "iso" THEN "2024-01-0" \o ToString(d.day)
  ELSE "2024/01/0" \o ToString(d.day)

\* line 462: new Date(string).  A date-only ISO string is 00:00 UTC of that
\* day; the other forms are 00:00 local time of that day.
NewDate(d) ==
  IF d.fmt = "iso" THEN d.day * HoursPerDay
  ELSE d.day * HoursPerDay - tzOffset

\* lines 465-466: setHours(0,0,0,0): 00:00 local time of the instant's local day
setHours0(t) == ((t + tzOffset) \div HoursPerDay) * HoursPerDay - tzOffset

\* line 468: Math.round((today - lastDate) / 86400000)
DayDiff(today, lastDate) == (today - lastDate + HoursPerDay \div 2) \div HoursPerDay

BadgeFresh(d) == [textContent |-> "Up to date (last date: " \o DateText(d) \o ")",
                  className |-> "badge bg-success"]
BadgeYesterday(d) == [textContent |-> "Data from yesterday (" \o DateText(d) \o ")",
                      className |-> "badge bg-warning text-dark"]
BadgeStale(d) == [textContent |-> "Data stale (last date: " \o DateText(d) \o ")",
                  className |-> "badge bg-danger"]

\* lines 460-480, for a non-empty dataset: the badge the call leaves
updateLastUpdatedStatus(rows) ==
  LET last == rows[Len(rows)].date
      diff == DayDiff(setHours0(now), setHours0(NewDate(last)))
  IN IF diff = 0 THEN BadgeFresh(last)
     ELSE IF diff = 1 THEN BadgeYesterday(last)
     ELSE BadgeStale(last)

----------------------------------------------------------------------------
(* Dataset load and ad-spend input *)

\* rows per dataset
MaxRows == 2

\* the records parseCSV (lines 397-410) returns; net and orders feed only the
\* charts
Row(fmt, day, revenue, refunds) ==
  [date |-> [fmt |-> fmt, day |-> day], revenue |-> revenue, refunds |-> refunds]
Rows == {Row("iso", 1, Num(0), Num(0)),
         Row("iso", 2, Num(3), Num(0)),
         Row("iso", 3, Num(1000), Num(100)),
         Row("slash", 1, Num(1000), Num(100)),
         Row("slash", 2, NaN, Num(0)),
         Row("slash", 3, Num(3), Num(0))}
Datasets == UNION {[1..n -> Rows] : n \in 0..MaxRows}

\* lines 220-234: setupDashboard of revision 2
setupDashboard_r2(rows) ==
  /\ dom' = recalc(dom, rows, adInput).dom
  /\ lastCall' = CallOf(dom, rows, adInput)
  /\ listening' = ~recalc(dom, rows, adInput).threw
  /\ UNCHANGED updateBadge

\* lines 412-426: setupDashboard of revision 3; data[data.length - 1].date
\* of an empty dataset is a TypeError that ends the call
setupDashboard_r3(rows) ==
  IF rows = <<>>
    THEN UNCHANGED <<dom, lastCall, listening, updateBadge>>
    ELSE /\ updateBadge' = updateLastUpdatedStatus(rows)
         /\ dom' = recalc(dom, rows, adInput).dom
         /\ lastCall' = CallOf(dom, rows, adInput)
         /\ listening' = TRUE

\* lines 192-197 (393-395): the CSV fetch resolves
LoadCSV(rows) ==
  /\ ~loaded
  /\ loaded' = TRUE
  /\ data' = rows
  /\ IF rev = 2 THEN setupDashboard_r2(rows) ELSE setupDashboard_r3(rows)
  /\ UNCHANGED <<rev, tzOffset, now, adInput>>
  /\ UNCHANGED <<refreshVars, clicks, syncVars>>

\* the user types text into #adSpendInput; the "input" listener (line 233 /
\* 425), once registered, runs recalc
InputEvent(text) ==
  /\ adInput' = text
  /\ IF listening
       THEN /\ dom' = recalc(dom, data, text).dom
            /\ lastCall' = CallOf(dom, data, text)
       ELSE UNCHANGED <<dom, lastCall>>
  /\ UNCHANGED <<rev, tzOffset, now, loaded, data, listening, updateBadge>>
  /\ UNCHANGED <<refreshVars, clicks, syncVars>>

----------------------------------------------------------------------------
(* Initial states and specifications *)

DomInitial == [totalRevenue |-> "", totalRefunds |-> "", adSpend |-> "",
               netProfit |-> "", roas |-> "", status |-> "", statusClass |-> ""]

InitRefresh ==
  /\ refreshCooldown = FALSE
  /\ refreshBtn = [disabled |-> FALSE, innerText |-> BtnIdleText]
  /\ refreshMsg = ""
  /\ timers = <<>>
  /\ reqs = <<>>
  /\ clicks = 0
  /\ syncBadge = BadgeInitial
  /\ lastUpdated = ""
  /\ polls = <<>>

InitSummary ==
  /\ loaded = FALSE
  /\ data = <<>>
  /\ adInput = ""
  /\ listening = FALSE
  /\ dom = DomInitial
  /\ updateBadge = [textContent |-> "", className |-> ""]
  /\ lastCall = <<>>

\* the page of revision 2, before daily_summary.csv has arrived
Init ==
  /\ InitRefresh
  /\ InitSummary
  /\ rev = 2
  /\ tzOffset = 0
  /\ now = 2 * HoursPerDay

\* the refresh button and the sync poll
Next ==
  \/ Click
  \/ \E i \in 1..MaxClicks : Tick(i)
  \/ \E i \in 1..MaxClicks, o \in Outcomes : FetchSettles(i, o)
  \/ \E d \in StatusDocs : PollStart(d)
  \/ \E k \in 1..MaxPolls : PollResponse(k)
  \/ \E k \in 1..MaxPolls : PollError(k)

Spec == Init /\ [][Next]_vars

\* the refresh button alone
NextRefresh ==
  \/ Click
  \/ \E i \in 1..MaxClicks : Tick(i)
  \/ \E i \in 1..MaxClicks, o \in Outcomes : FetchSettles(i, o)

SpecRefresh == Init /\ [][NextRefresh]_vars

\* the summary and the freshness badge, in revisions 2 and 3, in time zones
\* west of, at and east of UTC, early and late in the UTC day 2
InitDashboard ==
  /\ InitRefresh
  /\ InitSummary
  /\ rev \in {2, 3}
  /\ tzOffset \in {0 - 5, 0, 2}
  /\ now \in {2 * HoursPerDay + 1, 2 * HoursPerDay + 22}

NextDashboard ==
  \/ \E rows \in Datasets : LoadCSV(rows)
  \/ \E text \in AdInputs : InputEvent(text)

SpecDashboard == InitDashboard /\ [][NextDashboard]_vars

----------------------------------------------------------------------------
(* Properties *)

Failures == {"http_error", "network_error"}
Accepted == 1..Len(reqs)

\* C1: once an accepted click's trigger request has succeeded, the button stays
\* disabled and refreshCooldown stays true until that click's own countdown
\* has reached zero.
C1_DisabledWhileOwnCountdownRuns ==
  \A i \in Accepted :
    (reqs[i] = "ok" /\ timers[i].remaining > 0)
      => (refreshBtn.disabled /\ refreshCooldown)

\* C2: a click while refreshCooldown is true changes nothing (no request, no
\* timer, flag, button, message and sync badge as they were), and a trigger
\* request is issued only by a click made while the flag was false, one
\* request per such click.
C2_CooldownClickIsNoOp ==
  [][ /\ (clicks' = clicks + 1 /\ refreshCooldown)
          => UNCHANGED <<refreshVars, syncVars>>
      /\ (reqs' # reqs /\ Len(reqs') # Len(reqs))
          => /\ clicks' = clicks + 1
             /\ ~refreshCooldown
             /\ Len(reqs') = Len(reqs) + 1
             /\ Len(timers') = Len(timers) + 1
      /\ (clicks' = clicks + 1 /\ ~refreshCooldown)
          => Len(reqs') = Len(reqs) + 1 ]_vars

\* a click was delivered during a cooldown and ignored
C2_Witness ==
  /\ refreshCooldown
  /\ Len(reqs) = 1
  /\ clicks = 2
  /\ timers[1].remaining < CooldownSeconds

\* C3: the countdown timer of an accepted click is cleared when its countdown
\* expires and when its trigger request fails, and at most one countdown
\* timer is scheduled at any time.
C3_TimerClearedOnExpiryAndFailure ==
  /\ \A i \in Accepted :
       (reqs[i] \in Failures \/ timers[i].remaining <= 0) => ~timers[i].active
  /\ Cardinality({i \in Accepted : timers[i].active}) <= 1

\* C4: the step in which a trigger request fails (network error or
\* non-success status) re-enables the button, clears refreshCooldown and
\* shows the failure message, and issues no request; requests are issued by
\* click steps only.
C4_FailureResetsControl ==
  [][ /\ \A i \in Accepted :
           (reqs[i] = "pending" /\ Len(reqs') = Len(reqs) /\ reqs'[i] \in Failures)
             => /\ ~refreshBtn'.disabled
                /\ refreshBtn'.innerText = BtnIdleText
                /\ ~refreshCooldown'
                /\ refreshMsg' = MsgFailed
      /\ (\E i \in Accepted : reqs[i] = "pending" /\ reqs'[i] # "pending")
           => Len(reqs') = Len(reqs)
      /\ Len(reqs') > Len(reqs) => clicks' = clicks + 1 ]_vars

\* both kinds of failure have happened and the control is idle with the
\* failure message shown
C4_Witness ==
  /\ Len(reqs) = 2
  /\ reqs[1] = "http_error"
  /\ reqs[2] = "network_error"
  /\ ~refreshBtn.disabled
  /\ ~refreshCooldown
  /\ refreshMsg = MsgFailed

\* C6 (its safety half): while an accepted click's trigger request is still
\* pending and that click's countdown has not expired, the button stays
\* disabled and refreshCooldown stays true.
C6_DisabledWhileRequestHangs ==
  \A i \in Accepted :
    (reqs[i] = "pending" /\ timers[i].remaining > 0)
      => (refreshBtn.disabled /\ refreshCooldown)

\* C9: the button is disabled exactly when refreshCooldown is true; the
\* control leaves idle only by a click made while idle, and leaves cooldown
\* only by a countdown reaching zero or by a trigger request failing.
C9_TwoStateMachine ==
  /\ [](refreshBtn.disabled <=> refreshCooldown)
  /\ [][ /\ (~refreshCooldown /\ refreshCooldown')
              => (clicks' = clicks + 1 /\ Len(reqs') = Len(reqs) + 1)
         /\ (refreshCooldown /\ ~refreshCooldown')
              => \/ \E i \in Accepted :
                      /\ timers[i].active /\ ~timers'[i].active
                      /\ timers'[i].remaining <= 0
                 \/ \E i \in Accepted :
                      reqs[i] = "pending" /\ reqs'[i] \in Failures ]_vars

\* a click went through a whole cooldown: request succeeded, countdown ran to
\* zero, control idle again
C9_Witness ==
  /\ Len(reqs) = 1
  /\ reqs[1] = "ok"
  /\ timers[1].remaining = 0
  /\ ~timers[1].active
  /\ ~refreshCooldown
  /\ ~refreshBtn.disabled

\* C10: a sync_status.json response whose fetch started before the latest
\* accepted click replaces neither the badge's "syncing" mark nor the
\* emptied last-updated text.
C10_StalePollKeepsSyncingMark ==
  [][ \A k \in 1..Len(polls) :
        ( /\ Len(polls') = Len(polls) - 1
          /\ polls' = RemoveAt(polls, k)
          /\ polls[k].epoch < Len(reqs)
          /\ syncBadge = BadgeSyncing )
        => (syncBadge' = BadgeSyncing /\ lastUpdated' = lastUpdated) ]_vars

\* the status the summary should show for a numeric revenue and an ad spend
ExpectedStatus(revenue, adSpend) ==
  IF adSpend.nan \/ adSpend.v <= 0 THEN "N/A"
  ELSE IF revenue.v < adSpend.v THEN "RED"
  ELSE IF revenue.v < 3 * adSpend.v THEN "YELLOW"
  ELSE "GREEN"

\* C5: after updateSummary the status is "N/A" when the ad spend is not
\* greater than 0, else RED / YELLOW / GREEN by ratio < 1, 1 <= ratio < 3,
\* ratio >= 3; and the call does not fail.  (Stated for numeric revenue.)
C5_StatusByRatio ==
  lastCall # <<>> =>
    LET c == lastCall[1]
    IN ~c.revenue.nan =>
         (~c.threw /\ dom.status = ExpectedStatus(c.revenue, c.adSpend))

\* the local calendar day of an instant
LocalDay(t) == (t + tzOffset) \div HoursPerDay

\* C7: for a non-empty dataset the freshness badge is "up to date" when the
\* last record's date is today's date, "from yesterday" when it is one day
\* earlier, and "stale" otherwise.
C7_BadgeByCalendarDay ==
  (loaded /\ rev = 3 /\ data # <<>>) =>
    LET last == data[Len(data)].date
        diff == LocalDay(now) - last.day
    IN updateBadge = IF diff = 0 THEN BadgeFresh(last)
                     ELSE IF diff = 1 THEN BadgeYesterday(last)
                     ELSE BadgeStale(last)

\* C8: once recalc has run for the input's current value, running it again
\* leaves every summary element (texts and the status class) as it is.
C8_RecalcIdempotent ==
  (lastCall # <<>> /\ lastCall[1].adSpend = OrZero(parseFloat(adInput)))
    => recalc(dom, data, adInput).dom = dom

\* recalc has run for an ad spend that gives a ratio, after the display had
\* shown another status
C8_Witness ==
  /\ listening
  /\ lastCall # <<>>
  /\ lastCall[1].adSpend = Num(1000)
  /\ adInput = "1000"
  /\ dom.status = "YELLOW"
  /\ dom.adSpend # ""

====
